---- MODULE Spec2Model ----
(***************************************************************************)
(* A model of labelator (src/labelator/labelator.py): normalize_labels,    *)
(* the rendering loop of write_labels, make_label, the file-extension      *)
(* dispatch and save_as_pdf.                                               *)
(*                                                                         *)
(* Strings (labels, file names) are sequences of one-character strings so  *)
(* that strip, lower, endswith, rindex and split are computed, not         *)
(* assumed.  A Python dict is an insertion-ordered sequence of entries     *)
(* [key |-> <<row, col>>, val |-> label] with distinct keys.  The float    *)
(* fields of Parameters are drawn from small sets of integers; the offset  *)
(* arithmetic of x_pixels_of / y_pixels_of is the same expression.         *)
(***************************************************************************)
EXTENDS Integers, Sequences, FiniteSets, TLC

VARIABLES
    inp,            \* inp[p]: the arguments of call p of write_labels
    pc,             \* pc[p]: where call p is
    labels_dict,    \* labels_dict[p]: result of normalize_labels (line 161)
    drawing,        \* drawing[p]: the drawSvg.Drawing's elements, in order
    err,            \* err[p]: the exception (or exit) that ended call p
    fs,             \* the file system: file name -> content
    cairosvg        \* whether `import cairosvg` succeeds

vars == <<inp, pc, labels_dict, drawing, err, fs, cairosvg>>

----------------------------------------------------------------------------
(* Bounds of the model *)

\* largest num_rows / num_cols of the grids drawn for normalize_labels
MaxRows == 2
MaxCols == 2
\* largest number of entries of a dict given as labels
MaxDictSize == 2
\* longest flat list of labels drawn when rendering
MaxRenderLen == 2

----------------------------------------------------------------------------
(* Python values *)

None == "<None>"

NewLine == "\n"

\* The characters of a label are those a string of this module can hold
\* (code points 0..255).  Among them str.strip() removes the ones for which
\* str.isspace() is true: \t \n \x0b \x0c \r \x1c \x1d \x1e \x1f space
\* \x85 \xa0 (the last eight are written as the characters themselves).
Whitespace ==
    {" ", NewLine, "\t", "\r", "\f", "", "", "", "", "",
     "", " "}

SeqsUpTo(S, n) == UNION {[1..k -> S] : k \in 0..n}

\* str.strip(): drop leading and trailing whitespace
RECURSIVE LStrip(_)
LStrip(s) ==
    IF Len(s) > 0 /\ Head(s) \in Whitespace THEN LStrip(Tail(s)) ELSE s

RECURSIVE RStrip(_)
RStrip(s) ==
    IF Len(s) > 0 /\ s[Len(s)] \in Whitespace
    THEN RStrip(SubSeq(s, 1, Len(s) - 1))
    ELSE s

Strip(s) == RStrip(LStrip(s))

\* str.lower() on the characters that occur in the file names drawn
LowerOf ==
    ("A" :> "a") @@ ("D" :> "d") @@ ("F" :> "f") @@ ("G" :> "g") @@
    ("N" :> "n") @@ ("P" :> "p") @@ ("S" :> "s") @@ ("V" :> "v")

Lower(s) ==
    [i \in 1..Len(s) |-> IF s[i] \in DOMAIN LowerOf THEN LowerOf[s[i]] ELSE s[i]]

\* str.endswith(suffix)
EndsWith(s, suffix) ==
    /\ Len(s) >= Len(suffix)
    /\ SubSeq(s, Len(s) - Len(suffix) + 1, Len(s)) = suffix

\* '.' in filename
HasDot(s) == \E i \in 1..Len(s) : s[i] = "."

\* filename.rindex('.'), as a 1-based index
RIndexDot(s) == CHOOSE i \in 1..Len(s) :
    /\ s[i] = "."
    /\ \A j \in (i + 1)..Len(s) : s[j] # "."

\* len(label.split('\n'))
NumLines(label) == Cardinality({i \in 1..Len(label) : label[i] = NewLine}) + 1

----------------------------------------------------------------------------
(* dict[(row, col)] as an insertion-ordered sequence of entries *)

Keys(d) == {d[i].key : i \in 1..Len(d)}

Get(d, k) == d[CHOOSE i \in 1..Len(d) : d[i].key = k].val

\* d[k] = v
DictSet(d, k, v) ==
    IF k \in Keys(d)
    THEN [i \in 1..Len(d) |-> IF d[i].key = k THEN [key |-> k, val |-> v] ELSE d[i]]
    ELSE Append(d, [key |-> k, val |-> v])

----------------------------------------------------------------------------
(* normalize_labels *)

NoErr == [kind |-> "none", detail |-> <<>>]

Raise(kind, detail) == [ok |-> FALSE, val |-> <<>>, err |-> [kind |-> kind, detail |-> detail]]
Return(d) == [ok |-> TRUE, val |-> d, err |-> NoErr]

\* lines 202-206: the first key, in iteration order, that is out of bounds
RECURSIVE CheckKeys(_, _, _, _)

RowInBoundsOffByOne(row, num_rows) == 0 <= row /\ row <= num_rows

\* line 203: 0 <= row < num_rows
RowInBounds(row, num_rows) == 0 <= row /\ row < num_rows

\* line 205: 0 <= col < num_cols
ColInBounds(col, num_cols) == 0 <= col /\ col < num_cols

CheckKeys(d, i, num_rows, num_cols) ==
    IF i > Len(d) THEN NoErr
    ELSE LET row == d[i].key[1]
             col == d[i].key[2]
         IN  IF ~RowInBounds(row, num_rows)
             THEN [kind |-> "OutOfBounds", detail |-> <<"row", row>>]
             ELSE IF ~ColInBounds(col, num_cols)
             THEN [kind |-> "OutOfBounds", detail |-> <<"column", col>>]
             ELSE CheckKeys(d, i + 1, num_rows, num_cols)

\* lines 219-222: the first row that is too long (0-based index), or -1
RECURSIVE LongRow(_, _, _)
LongRow(labels, i, num_cols) ==
    IF i > Len(labels) THEN -1
    ELSE IF Len(labels[i]) > num_cols THEN i - 1
    ELSE LongRow(labels, i + 1, num_cols)

FlatTooLongFixedLimit(labels, num_rows, num_cols) == Len(labels) > 260

\* line 225
FlatTooLong(labels, num_rows, num_cols) == Len(labels) > num_cols * num_rows

\* appending to the last row: labels_2d[-1].append(label)
AppendTo(labels_2d, r, label) ==
    [labels_2d EXCEPT ![r] = Append(@, label)]

RowStepLateWrap(st, label, num_cols) ==
    LET col1 == IF st.col > num_cols THEN 0 ELSE st.col
        l2d  == IF col1 = 0 THEN Append(st.labels_2d, <<>>) ELSE st.labels_2d
    IN  [labels_2d |-> AppendTo(l2d, Len(l2d), label), col |-> col1 + 1]

\* lines 238-243: one iteration of the row-major loop
RowStep(st, label, num_cols) ==
    LET col1 == IF st.col = num_cols THEN 0 ELSE st.col
        l2d  == IF col1 = 0 THEN Append(st.labels_2d, <<>>) ELSE st.labels_2d
    IN  [labels_2d |-> AppendTo(l2d, Len(l2d), label), col |-> col1 + 1]

RECURSIVE RowLoop(_, _, _, _)
RowLoop(labels, i, st, num_cols) ==
    IF i > Len(labels) THEN st
    ELSE RowLoop(labels, i + 1, RowStep(st, labels[i], num_cols), num_cols)

\* lines 236-243
GroupByRow(labels, num_cols) ==
    RowLoop(labels, 1, [labels_2d |-> <<>>, col |-> 0], num_cols).labels_2d

\* lines 249-255: one iteration of the column-major loop
ColStep(st, label, num_rows) ==
    LET wrap == st.row = num_rows
        row1 == IF wrap THEN 0 ELSE st.row
        ofc  == IF wrap THEN FALSE ELSE st.on_first_col
        l2d  == IF ofc THEN Append(st.labels_2d, <<>>) ELSE st.labels_2d
    IN  [labels_2d |-> AppendTo(l2d, row1 + 1, label),
         row |-> row1 + 1, on_first_col |-> ofc]

RECURSIVE ColLoop(_, _, _, _)
ColLoop(labels, i, st, num_rows) ==
    IF i > Len(labels) THEN st
    ELSE ColLoop(labels, i + 1, ColStep(st, labels[i], num_rows), num_rows)

GroupByColTransposed(labels, num_rows) == GroupByRow(labels, num_rows)

\* lines 246-255
GroupByCol(labels, num_rows) ==
    ColLoop(labels, 1, [labels_2d |-> <<>>, row |-> 0, on_first_col |-> TRUE],
            num_rows).labels_2d

\* lines 262-265: convert 2D list to dict, rows then columns
RECURSIVE DictOfRow(_, _, _, _)
DictOfRow(d, row, row_list, c) ==
    IF c > Len(row_list) THEN d
    ELSE DictOfRow(DictSet(d, <<row, c - 1>>, row_list[c]), row, row_list, c + 1)

RECURSIVE DictOfRows(_, _, _)
DictOfRows(d, labels_2d, r) ==
    IF r > Len(labels_2d) THEN d
    ELSE DictOfRows(DictOfRow(d, r - 1, labels_2d[r], 1), labels_2d, r + 1)

DictOf2d(labels_2d) == DictOfRows(<<>>, labels_2d, 1)

\* lines 224-259: labels is a 1D list of strings
NormalizeFlat(labels, order_by, num_rows, num_cols) ==
    IF FlatTooLong(labels, num_rows, num_cols)
    THEN Raise("TooManyItems", <<"length", Len(labels)>>)
    ELSE LET ob == IF order_by = None THEN "row" ELSE order_by
         IN  IF ob = "row" THEN Return(DictOf2d(GroupByRow(labels, num_cols)))
             ELSE IF ob = "col" THEN Return(DictOf2d(GroupByCol(labels, num_rows)))
             ELSE Raise("InvalidOption", <<"order_by", ob>>)

\* lines 213-223: labels is a 2D list
Normalize2d(labels, order_by, num_rows, num_cols) ==
    IF order_by # None
    THEN Raise("InvalidInput", <<"order_by", "2D list">>)
    ELSE IF Len(labels) > num_rows
    THEN Raise("TooManyItems", <<"rows", Len(labels)>>)
    ELSE IF LongRow(labels, 1, num_cols) # -1
    THEN Raise("TooManyItems", <<"row", LongRow(labels, 1, num_cols)>>)
    ELSE Return(DictOf2d(labels))

\* lines 198-207: labels is a dict
NormalizeDict(labels, order_by, num_rows, num_cols) ==
    IF order_by # None
    THEN Raise("InvalidInput", <<"order_by", "dict">>)
    ELSE LET e == CheckKeys(labels, 1, num_rows, num_cols)
         IN  IF e # NoErr THEN [ok |-> FALSE, val |-> <<>>, err |-> e]
             ELSE Return(labels)

\* lines 190-270.  labels is [type: "dict" | "list" | other, elem: the type
\* of labels[0] when labels is a non-empty list, val: the value]
normalize_labels(labels, order_by, params) ==
    LET num_rows == params.num_rows
        num_cols == params.num_cols
    IN  IF labels.type = "dict"
        THEN NormalizeDict(labels.val, order_by, num_rows, num_cols)
        ELSE IF labels.type = "list"
        THEN IF Len(labels.val) = 0 THEN Return(DictOf2d(<<>>))
             ELSE IF labels.elem = "list"
             THEN Normalize2d(labels.val, order_by, num_rows, num_cols)
             ELSE NormalizeFlat(labels.val, order_by, num_rows, num_cols)
        ELSE Raise("InvalidInput", <<"type", labels.type>>)

----------------------------------------------------------------------------
(* Parameters.  Lengths are in 1/100 SVG px, so that the offsets and the  *)
(* radius of flexilabels_260_per_a4_sheet are integers.                   *)

\* line 75: x_multiplier=49.16
XMultiplier == 4916
\* line 76: y_multiplier=49.16
YMultiplier == 4916
\* line 77: x_offset=102.0
XOffset == 10200
\* line 78: y_offset=94.5
YOffset == 9450
\* line 79: radius=19.0
Radius == 1900
\* line 80: default_font_size=8.0
DefaultFontSize == 800
\* line 81: page_width_px=794
PageWidthPx == 79400
\* line 82: page_height_px=1123
PageHeightPx == 112300
\* line 83: num_rows=20
PresetNumRows == 20
\* line 84: num_cols=13
PresetNumCols == 13
\* line 100: dy_text_em = 0.0
DyTextEm == 0
\* line 101: line_height = 1.0
LineHeight == 1

Parameters(num_rows, num_cols, x_multiplier, y_multiplier) ==
    [x_multiplier |-> x_multiplier, y_multiplier |-> y_multiplier,
     x_offset |-> XOffset, y_offset |-> YOffset, radius |-> Radius,
     default_font_size |-> DefaultFontSize,
     page_width_px |-> PageWidthPx, page_height_px |-> PageHeightPx,
     num_rows |-> num_rows, num_cols |-> num_cols]

\* lines 74-85
flexilabels_260_per_a4_sheet ==
    Parameters(PresetNumRows, PresetNumCols, XMultiplier, YMultiplier)

----------------------------------------------------------------------------
(* Rendering: x_pixels_of, y_pixels_of, make_label, the loop of write_labels *)

\* lines 273-274
x_pixels_of(col, params) == params.x_offset + col * params.x_multiplier

\* lines 277-278
y_pixels_of(row, params) ==
    params.y_offset + (params.num_rows - row - 1) * params.x_multiplier

Circle(x_px, y_px, params) ==
    [kind |-> "circle", x |-> x_px, y |-> y_px, r |-> params.radius]

\* dy is kept doubled: 2 * (dy_text_em - ((num_lines - 1) / 2) * line_height)
Text(label, x_px, y_px, font_size) ==
    [kind |-> "text", x |-> x_px, y |-> y_px, label |-> label,
     font_size |-> font_size,
     dy_twice |-> 2 * DyTextEm - (NumLines(label) - 1) * LineHeight]

\* lines 296-324: the elements appended to the drawing d
make_label(d, label, row, col, show_circles, params) ==
    LET x_px == x_pixels_of(col, params)
        y_px == y_pixels_of(row, params)
        d1   == IF show_circles THEN Append(d, Circle(x_px, y_px, params)) ELSE d
    \* lines 158-159: font_size is None, so params.default_font_size
    IN  Append(d1, Text(label, x_px, y_px, params.default_font_size))

IsRenderedNoStrip(label) == label # <<>>

\* line 165: label.strip() != ''
IsRendered(label) == Strip(label) # <<>>

\* lines 164-170
RECURSIVE RenderLoop(_, _, _, _, _)
RenderLoop(d, i, labels, show_circles, params) ==
    IF i > Len(labels) THEN d
    ELSE LET row   == labels[i].key[1]
             col   == labels[i].key[2]
             label == labels[i].val
             d1    == IF IsRendered(label)
                      THEN make_label(d, label, row, col, show_circles, params)
                      ELSE d
         IN  RenderLoop(d1, i + 1, labels, show_circles, params)

----------------------------------------------------------------------------
(* Files *)

Dot == "."
DotPdf == <<Dot, "p", "d", "f">>
DotSvg == <<Dot, "s", "v", "g">>
DotPng == <<Dot, "p", "n", "g">>

\* line 336: f'{filename}.svg'
SvgNameOf(filename) == filename \o DotSvg

NoFile  == [fmt |-> "absent", doc |-> <<>>]
OldFile == [fmt |-> "old", doc |-> <<>>]

\* drawing.saveSvg / drawing.savePng
SvgFile(d) == [fmt |-> "svg", doc |-> d]
PngFile(d) == [fmt |-> "png", doc |-> d]
\* cairosvg.svg2pdf of a file
PdfOf(file) == [fmt |-> "pdf", doc |-> file.doc]

\* the file names drawn as arguments
Filenames ==
    { <<"a">> \o DotPdf,
      <<"A", Dot, "P", "D", "F">>,
      <<"a">> \o DotSvg,
      <<"a", Dot, "S", "v", "g">>,
      <<"a">> \o DotPng,
      <<"a">> \o DotPdf \o DotSvg,
      <<"a", Dot, "b", Dot, "t", "x", "t">>,
      <<"o", "u", "t", Dot, "t", "x", "t">>,
      <<"p", "d", "f">>,
      <<"a", Dot>> }

AllNames == Filenames \cup {SvgNameOf(f) : f \in Filenames}

----------------------------------------------------------------------------
(* write_labels, one call p at a time; the file steps of a call are       *)
(* separate actions, so that two calls interleave as their system calls do *)

Finish(p, kind, detail) ==
    /\ pc' = [pc EXCEPT ![p] = "failed"]
    /\ err' = [err EXCEPT ![p] = [kind |-> kind, detail |-> detail]]

\* line 161: labels = normalize_labels(labels, order_by, params)
Normalize(p) ==
    /\ pc[p] = "start"
    /\ LET r == normalize_labels(inp[p].labels, inp[p].order_by, inp[p].params)
       IN  IF r.ok
           THEN /\ labels_dict' = [labels_dict EXCEPT ![p] = r.val]
                /\ pc' = [pc EXCEPT ![p] = "render"]
                /\ err' = err
           ELSE /\ pc' = [pc EXCEPT ![p] = "failed"]
                /\ err' = [err EXCEPT ![p] = r.err]
                /\ labels_dict' = labels_dict
    /\ UNCHANGED <<inp, drawing, fs, cairosvg>>

\* lines 163-170: a new Drawing, and make_label for every rendered label
Render(p) ==
    /\ pc[p] = "render"
    /\ drawing' = [drawing EXCEPT ![p] =
           RenderLoop(<<>>, 1, labels_dict[p], inp[p].show_circles, inp[p].params)]
    /\ pc' = [pc EXCEPT ![p] = "export"]
    /\ UNCHANGED <<inp, labels_dict, err, fs, cairosvg>>

ExportWriteThenCheck(p) ==
    /\ pc[p] = "export"
    /\ LET filename == inp[p].filename
           lower    == Lower(filename)
       IN  IF EndsWith(lower, DotPdf)
           THEN /\ pc' = [pc EXCEPT ![p] = "save_as_pdf"]
                /\ UNCHANGED <<err, fs>>
           ELSE /\ fs' = [fs EXCEPT ![filename] = SvgFile(drawing[p])]
                /\ IF EndsWith(lower, DotSvg)
                   THEN pc' = [pc EXCEPT ![p] = "done"] /\ err' = err
                   ELSE IF HasDot(filename)
                   THEN Finish(p, "UnsupportedFormat",
                               SubSeq(filename, RIndexDot(filename) + 1, Len(filename)))
                   ELSE Finish(p, "MissingExtension", filename)
    /\ UNCHANGED <<inp, labels_dict, drawing, cairosvg>>

\* lines 172-187: the dispatch on the file name; saveSvg and savePng write
\* the file, the .pdf branch continues in save_as_pdf
Export(p) ==
    /\ pc[p] = "export"
    /\ LET filename == inp[p].filename
           lower    == Lower(filename)
       IN  IF EndsWith(lower, DotPdf)
           THEN /\ pc' = [pc EXCEPT ![p] = "save_as_pdf"]
                /\ UNCHANGED <<err, fs>>
           ELSE IF EndsWith(lower, DotSvg)
           THEN /\ fs' = [fs EXCEPT ![filename] = SvgFile(drawing[p])]
                /\ pc' = [pc EXCEPT ![p] = "done"]
                /\ err' = err
           ELSE IF EndsWith(lower, DotPdf)    \* line 176, as written
           THEN /\ fs' = [fs EXCEPT ![filename] = PngFile(drawing[p])]
                /\ pc' = [pc EXCEPT ![p] = "done"]
                /\ err' = err
           ELSE IF HasDot(filename)
           THEN /\ Finish(p, "UnsupportedFormat",
                          SubSeq(filename, RIndexDot(filename) + 1, Len(filename)))
                /\ fs' = fs
           ELSE /\ Finish(p, "MissingExtension", filename)
                /\ fs' = fs
    /\ UNCHANGED <<inp, labels_dict, drawing, cairosvg>>

\* lines 328-337: import cairosvg (exit -1 when it is missing), then
\* drawing.saveSvg(svg_filename)
SaveAsPdfStart(p) ==
    /\ pc[p] = "save_as_pdf"
    /\ IF ~cairosvg
       THEN /\ Finish(p, "ExportUnavailable", <<"sys.exit", -1>>)
            /\ fs' = fs
       ELSE /\ fs' = [fs EXCEPT ![SvgNameOf(inp[p].filename)] = SvgFile(drawing[p])]
            /\ pc' = [pc EXCEPT ![p] = "svg2pdf"]
            /\ err' = err
    /\ UNCHANGED <<inp, labels_dict, drawing, cairosvg>>

\* line 338: cairosvg.svg2pdf(url=svg_filename, write_to=filename)
SaveAsPdfConvert(p) ==
    /\ pc[p] = "svg2pdf"
    /\ LET svg_filename == SvgNameOf(inp[p].filename)
       IN  IF fs[svg_filename] = NoFile
           THEN /\ Finish(p, "FileNotFoundError", svg_filename)
                /\ fs' = fs
           ELSE /\ fs' = [fs EXCEPT ![inp[p].filename] = PdfOf(fs[svg_filename])]
                /\ pc' = [pc EXCEPT ![p] = "remove"]
                /\ err' = err
    /\ UNCHANGED <<inp, labels_dict, drawing, cairosvg>>

\* line 339: os.remove(svg_filename), then write_labels returns (line 187)
SaveAsPdfRemove(p) ==
    /\ pc[p] = "remove"
    /\ LET svg_filename == SvgNameOf(inp[p].filename)
       IN  IF fs[svg_filename] = NoFile
           THEN /\ Finish(p, "FileNotFoundError", svg_filename)
                /\ fs' = fs
           ELSE /\ fs' = [fs EXCEPT ![svg_filename] = NoFile]
                /\ pc' = [pc EXCEPT ![p] = "done"]
                /\ err' = err
    /\ UNCHANGED <<inp, labels_dict, drawing, cairosvg>>

----------------------------------------------------------------------------
(* The arguments drawn *)

LabelA == <<"A">>
LabelB == <<"B">>
LabelC == <<"C">>

OrderBys == {None, "row", "col", "bogus"}

ListOfStr(v)  == [type |-> "list", elem |-> "str", val |-> v]
ListOfList(v) == [type |-> "list", elem |-> "list", val |-> v]
Dict(v)       == [type |-> "dict", elem |-> "", val |-> v]
\* a value that is neither a list nor a dict, such as a tuple
OtherValue    == [type |-> "tuple", elem |-> "", val |-> <<>>]

DictsUpTo(keys, vals, n) ==
    {d \in SeqsUpTo([key : keys, val : vals], n) :
        \A i, j \in 1..Len(d) : d[i].key = d[j].key => i = j}

\* labels for a grid of num_rows x num_cols: flat lists up to one label too
\* many, 2D lists up to one row and one column too many, dicts with keys up
\* to one outside the grid on every side, and a value of another type
FlatInputs(num_rows, num_cols) ==
    {ListOfStr(v) : v \in SeqsUpTo({LabelA, LabelB}, num_rows * num_cols + 1)
                          \cup {<<LabelA, LabelB, LabelC>>}}

NestedInputs(num_rows, num_cols) ==
    {ListOfList(v) :
        v \in SeqsUpTo(SeqsUpTo({LabelA}, num_cols + 1), num_rows + 1) \ {<<>>}}

DictInputs(num_rows, num_cols) ==
    {Dict(v) :
        v \in DictsUpTo((-1..num_rows) \X (-1..num_cols), {LabelA}, MaxDictSize)}

Call(filename, labels, order_by, show_circles, params) ==
    [filename |-> filename, labels |-> labels, order_by |-> order_by,
     show_circles |-> show_circles, params |-> params]

InitCalls(procs) ==
    /\ pc = [p \in procs |-> "start"]
    /\ labels_dict = [p \in procs |-> <<>>]
    /\ drawing = [p \in procs |-> <<>>]
    /\ err = [p \in procs |-> NoErr]

NoFiles == [n \in AllNames |-> NoFile]

----------------------------------------------------------------------------
(* SpecNormalize: normalize_labels on every input shape *)

InitNormalize ==
    /\ \E i \in 0..MaxRows, j \in 0..MaxCols, order_by \in OrderBys :
         LET num_rows == MaxRows - i
             num_cols == MaxCols - j
             params == Parameters(num_rows, num_cols, XMultiplier, YMultiplier)
             file   == <<"a">> \o DotSvg
         IN  \/ \E labels \in FlatInputs(num_rows, num_cols) :
                    inp = 1 :> Call(file, labels, order_by, TRUE, params)
             \/ \E labels \in NestedInputs(num_rows, num_cols) :
                    inp = 1 :> Call(file, labels, order_by, TRUE, params)
             \/ \E labels \in DictInputs(num_rows, num_cols) :
                    inp = 1 :> Call(file, labels, order_by, TRUE, params)
             \/ inp = 1 :> Call(file, OtherValue, order_by, TRUE, params)
    /\ InitCalls({1})
    /\ fs = NoFiles
    /\ cairosvg = TRUE

NextNormalize == \E p \in DOMAIN pc : Normalize(p)

SpecNormalize == InitNormalize /\ [][NextNormalize]_vars

----------------------------------------------------------------------------
(* SpecWrite: one call of write_labels, from its arguments to its files *)

\* labels that are rendered, and labels that are blank after strip()
LabelPadded == <<" ", "B", NewLine, "C", "\f">>
LabelEmpty  == <<>>
LabelBlank  == <<" ", "\r", NewLine>>
RenderLabels == {LabelA, LabelPadded, LabelEmpty, LabelBlank}

\* multipliers of the preset and of another sheet, in 1/100 px
Multipliers == {XMultiplier, 3000}

WriteFilenames ==
    { <<"a">> \o DotPdf,
      <<"A", Dot, "P", "D", "F">>,
      <<"a">> \o DotSvg,
      <<"a">> \o DotPng,
      <<"a", Dot, "b", Dot, "t", "x", "t">>,
      <<"o", "u", "t", Dot, "t", "x", "t">>,
      <<"p", "d", "f">> }

\* flat lists that fit, the list of the 2x2 scenario, and a list too long
WriteFlatInputs(num_rows, num_cols) ==
    {ListOfStr(v) : v \in SeqsUpTo(RenderLabels, MaxRenderLen)
                          \cup {<<LabelA, LabelB, LabelC>>}
                          \cup {[i \in 1..(num_rows * num_cols + 1) |-> LabelA]}}

\* a 2D list with a blank label, and one with a row too many
WriteNestedInputs(num_rows, num_cols) ==
    {ListOfList(v) : v \in {<<<<LabelBlank, LabelA>>>>,
                            [i \in 1..(num_rows + 1) |-> <<LabelA>>]}}

\* a dict with a gap and a blank label, and one with a key out of bounds
WriteDictInputs(num_rows, num_cols) ==
    {Dict(v) : v \in {<<[key |-> <<0, 1>>, val |-> LabelPadded],
                        [key |-> <<0, 0>>, val |-> LabelBlank]>>,
                      <<[key |-> <<num_rows, 0>>, val |-> LabelA]>>}}

\* every file is there before the call, with other content
OldFiles == [n \in AllNames |-> OldFile]

InitWrite ==
    /\ \E num_rows \in 1..MaxRows, x_multiplier \in Multipliers,
          y_multiplier \in Multipliers, order_by \in OrderBys,
          show_circles \in BOOLEAN, filename \in WriteFilenames :
         LET params == Parameters(num_rows, MaxCols, x_multiplier, y_multiplier)
         IN  \/ \E labels \in WriteFlatInputs(num_rows, MaxCols) :
                    inp = 1 :> Call(filename, labels, order_by, show_circles, params)
             \/ \E labels \in WriteNestedInputs(num_rows, MaxCols) :
                    inp = 1 :> Call(filename, labels, order_by, show_circles, params)
             \/ \E labels \in WriteDictInputs(num_rows, MaxCols) :
                    inp = 1 :> Call(filename, labels, order_by, show_circles, params)
             \/ inp = 1 :> Call(filename, OtherValue, order_by, show_circles, params)
    /\ InitCalls({1})
    /\ fs = OldFiles
    \* the import of cairosvg matters to the .pdf branch only
    /\ cairosvg \in IF EndsWith(Lower(inp[1].filename), DotPdf) THEN BOOLEAN ELSE {TRUE}

Next ==
    \/ \E p \in DOMAIN pc : Normalize(p)
    \/ \E p \in DOMAIN pc : Render(p)
    \/ \E p \in DOMAIN pc : Export(p)
    \/ \E p \in DOMAIN pc : SaveAsPdfStart(p)
    \/ \E p \in DOMAIN pc : SaveAsPdfConvert(p)
    \/ \E p \in DOMAIN pc : SaveAsPdfRemove(p)

SpecWrite == InitWrite /\ [][Next]_vars

----------------------------------------------------------------------------
(* SpecConcurrent: two calls of write_labels, their steps interleaved *)

ConcurrentFilenames ==
    { <<"a">> \o DotPdf,
      <<"a">> \o DotPdf \o DotSvg,
      <<"A", Dot, "P", "D", "F">>,
      <<"a">> \o DotSvg,
      <<"a", Dot, "S", "v", "g">> }

InitConcurrent ==
    /\ \E f1, f2 \in ConcurrentFilenames :
         inp = (1 :> Call(f1, ListOfStr(<<LabelA>>), None, TRUE, flexilabels_260_per_a4_sheet))
            @@ (2 :> Call(f2, ListOfStr(<<LabelB, LabelC>>), "col", FALSE, flexilabels_260_per_a4_sheet))
    /\ InitCalls({1, 2})
    /\ fs = NoFiles
    /\ cairosvg \in BOOLEAN

SpecConcurrent == InitConcurrent /\ [][Next]_vars

----------------------------------------------------------------------------
(* Properties of normalize_labels (SpecNormalize) *)

Calls == DOMAIN pc

\* the call's normalize_labels has run
Normalized(p) == pc[p] # "start"
\* ... and returned a mapping
Returned(p) == pc[p] \notin {"start", "failed"}
FailedWith(p, kind) == pc[p] = "failed" /\ err[p].kind = kind

IsFlat(p) == inp[p].labels.type = "list" /\ inp[p].labels.elem = "str"
IsNested(p) == inp[p].labels.type = "list" /\ inp[p].labels.elem = "list"
IsDict(p) == inp[p].labels.type = "dict"

NumRows(p) == inp[p].params.num_rows
NumCols(p) == inp[p].params.num_cols
GridSize(p) == NumRows(p) * NumCols(p)
Grid(p) == (0..(NumRows(p) - 1)) \X (0..(NumCols(p) - 1))

\* C1: a flat list of L <= num_rows*num_cols labels with order_by "row" or
\* unspecified is returned as a mapping of exactly L entries, the i-th label
\* (0-based) at (i div num_cols, i mod num_cols).
C1_RowMajor ==
    \A p \in Calls :
        LET labels == inp[p].labels.val
            L == Len(labels)
        IN  (/\ Normalized(p)
             /\ IsFlat(p)
             /\ inp[p].order_by \in {None, "row"}
             /\ L <= GridSize(p))
            => /\ Returned(p)
               /\ Len(labels_dict[p]) = L
               /\ Cardinality(Keys(labels_dict[p])) = L
               /\ \A i \in 0..(L - 1) :
                    LET k == <<i \div NumCols(p), i % NumCols(p)>>
                    IN  k \in Keys(labels_dict[p]) /\ Get(labels_dict[p], k) = labels[i + 1]

\* a row-major call whose third label starts the second row of a 2x2 grid
C1_Witness ==
    /\ Returned(1) /\ IsFlat(1) /\ inp[1].order_by = "row"
    /\ NumRows(1) = 2 /\ NumCols(1) = 2
    /\ inp[1].labels.val = <<LabelA, LabelB, LabelB>>
    /\ Get(labels_dict[1], <<1, 0>>) = LabelB

\* C2: a flat list of L <= num_rows*num_cols labels with order_by "col" is
\* returned as a mapping of exactly L entries, the i-th label (0-based) at
\* (i mod num_rows, i div num_rows); ["A","B","C"] on a 2x2 grid gives
\* {(0,0):"A", (1,0):"B", (0,1):"C"}; a last partial column holds rows
\* 0..(L mod num_rows)-1 only.
C2_ColMajor ==
    \A p \in Calls :
        LET labels == inp[p].labels.val
            L == Len(labels)
            d == labels_dict[p]
        IN  (/\ Normalized(p)
             /\ IsFlat(p)
             /\ inp[p].order_by = "col"
             /\ L <= GridSize(p))
            => /\ Returned(p)
               /\ Len(d) = L
               /\ Cardinality(Keys(d)) = L
               /\ \A i \in 0..(L - 1) :
                    LET k == <<i % NumRows(p), i \div NumRows(p)>>
                    IN  k \in Keys(d) /\ Get(d, k) = labels[i + 1]
               /\ (NumRows(p) = 2 /\ NumCols(p) = 2
                        /\ labels = <<LabelA, LabelB, LabelC>>)
                    => /\ Keys(d) = {<<0, 0>>, <<1, 0>>, <<0, 1>>}
                       /\ Get(d, <<0, 0>>) = LabelA
                       /\ Get(d, <<1, 0>>) = LabelB
                       /\ Get(d, <<0, 1>>) = LabelC
               /\ (L > 0 /\ L % NumRows(p) # 0)
                    => {k[1] : k \in {kk \in Keys(d) : kk[2] = L \div NumRows(p)}}
                         = 0..((L % NumRows(p)) - 1)

\* ["A","B","C"] on a 2x2 grid, column-major
C2_Witness ==
    /\ Returned(1) /\ IsFlat(1) /\ inp[1].order_by = "col"
    /\ NumRows(1) = 2 /\ NumCols(1) = 2
    /\ inp[1].labels.val = <<LabelA, LabelB, LabelC>>
    /\ Get(labels_dict[1], <<0, 1>>) = LabelC

\* C3: with either ordering, a flat list of exactly num_rows*num_cols labels
\* is accepted and fills every position of the grid, and a flat list of more
\* labels fails with TooManyItems and returns no mapping.
C3_FlatBoundary ==
    \A p \in Calls :
        LET L == Len(inp[p].labels.val)
        IN  (/\ Normalized(p)
             /\ IsFlat(p)
             /\ inp[p].order_by \in {None, "row", "col"})
            => /\ L = GridSize(p)
                    => /\ Returned(p)
                       /\ Keys(labels_dict[p]) = Grid(p)
                       /\ Len(labels_dict[p]) = GridSize(p)
               /\ L > GridSize(p)
                    => /\ FailedWith(p, "TooManyItems")
                       /\ labels_dict[p] = <<>>

\* num_rows*num_cols + 1 labels on a 2x2 grid are refused
C3_Witness ==
    /\ FailedWith(1, "TooManyItems") /\ IsFlat(1) /\ inp[1].order_by = "col"
    /\ NumRows(1) = 2 /\ NumCols(1) = 2
    /\ Len(inp[1].labels.val) = 5

KeysInGrid(p) == \A k \in Keys(labels_dict[p]) : k \in Grid(p)

\* C4 as stated: every returned mapping has its keys in the grid; a dict
\* with a key outside the grid fails with OutOfBounds; a dict whose keys are
\* all in the grid succeeds.
C4_AsStated ==
    \A p \in Calls :
        /\ (Returned(p) /\ (IsDict(p) \/ IsNested(p) \/ IsFlat(p))) => KeysInGrid(p)
        /\ (Normalized(p) /\ IsDict(p))
            => IF \E k \in Keys(inp[p].labels.val) : k \notin Grid(p)
               THEN FailedWith(p, "OutOfBounds")
               ELSE Returned(p)

\* C4, amended: ... a dict given with order_by unspecified fails with
\* OutOfBounds when a key is outside the grid and is returned unchanged when
\* all keys are in the grid; a dict given with an order_by fails with
\* InvalidInput whatever its keys.
C4_KeysInBounds ==
    \A p \in Calls :
        /\ (Returned(p) /\ (IsDict(p) \/ IsNested(p) \/ IsFlat(p))) => KeysInGrid(p)
        /\ (Normalized(p) /\ IsDict(p) /\ inp[p].order_by = None)
            => IF \E k \in Keys(inp[p].labels.val) : k \notin Grid(p)
               THEN FailedWith(p, "OutOfBounds") /\ labels_dict[p] = <<>>
               ELSE Returned(p) /\ labels_dict[p] = inp[p].labels.val
        /\ (Normalized(p) /\ IsDict(p) /\ inp[p].order_by # None)
            => FailedWith(p, "InvalidInput")

\* a dict holding the last position of a 2x2 grid is returned
C4_Witness ==
    /\ Returned(1) /\ IsDict(1) /\ inp[1].order_by = None
    /\ NumRows(1) = 2 /\ NumCols(1) = 2
    /\ <<1, 1>> \in Keys(labels_dict[1])

\* C5: a flat list of 0 <= L <= num_rows*num_cols labels (the empty list
\* included) with an order_by other than "row", "col" or unspecified fails
\* with InvalidOption and returns no mapping.
C5_InvalidOption ==
    \A p \in Calls :
        (/\ Normalized(p)
         /\ IsFlat(p)
         /\ Len(inp[p].labels.val) <= GridSize(p)
         /\ inp[p].order_by \notin {None, "row", "col"})
        => FailedWith(p, "InvalidOption") /\ labels_dict[p] = <<>>

----------------------------------------------------------------------------
(* Properties of rendering and export (SpecWrite) *)

ExportErrors == {"UnsupportedFormat", "MissingExtension", "ExportUnavailable",
                 "FileNotFoundError"}

\* the rendering loop of the call has run: drawing[p] is the document
Rendered(p) ==
    \/ pc[p] \in {"export", "save_as_pdf", "svg2pdf", "remove", "done"}
    \/ pc[p] = "failed" /\ err[p].kind \in ExportErrors

\* the dispatch on the file name has run
Dispatched(p) == Rendered(p) /\ pc[p] # "export"

\* not empty and not all whitespace
NonBlank(label) == \E i \in 1..Len(label) : label[i] \notin Whitespace

Elements(p, kind) == {i \in 1..Len(drawing[p]) : drawing[p][i].kind = kind}

ElementsAt(p, kind, x, y) ==
    {i \in Elements(p, kind) : drawing[p][i].x = x /\ drawing[p][i].y = y}

\* the centre the specification gives to (row, col)
CentreX(p, col) == inp[p].params.x_offset + col * inp[p].params.x_multiplier
CentreY(p, row) ==
    inp[p].params.y_offset + (NumRows(p) - row - 1) * inp[p].params.y_multiplier

DrawnKeys(p) == {k \in Keys(labels_dict[p]) : NonBlank(Get(labels_dict[p], k))}

\* C6: the primitives drawn for (row, col) are centred at
\* x = x_offset + col * x_multiplier and
\* y = y_offset + (num_rows - row - 1) * y_multiplier, with x_multiplier and
\* y_multiplier chosen independently.
C6_Centres ==
    \A p \in Calls :
        Rendered(p)
        => /\ \A k \in DrawnKeys(p) :
                /\ \E i \in ElementsAt(p, "text", CentreX(p, k[2]), CentreY(p, k[1])) :
                        drawing[p][i].label = Get(labels_dict[p], k)
                /\ inp[p].show_circles
                    => ElementsAt(p, "circle", CentreX(p, k[2]), CentreY(p, k[1])) # {}
           /\ \A i \in 1..Len(drawing[p]) :
                \E k \in DrawnKeys(p) :
                    /\ drawing[p][i].x = CentreX(p, k[2])
                    /\ drawing[p][i].y = CentreY(p, k[1])

\* where the code draws (row, col)
DrawnX(p, col) == x_pixels_of(col, inp[p].params)
DrawnY(p, row) == y_pixels_of(row, inp[p].params)

\* C7: the document holds exactly one text block per position whose label is
\* non-empty after trimming whitespace, plus exactly one circle per such
\* position when show_circles is true and no circle when it is false; a
\* position with an empty or all-whitespace label stays in the normalized
\* mapping and contributes nothing, and an absent position contributes nothing.
C7_PrimitivesPerLabel ==
    \A p \in Calls :
        Rendered(p)
        => LET n == Cardinality(DrawnKeys(p))
           IN  /\ Cardinality(Elements(p, "text")) = n
               /\ Cardinality(Elements(p, "circle")) = IF inp[p].show_circles THEN n ELSE 0
               /\ Len(drawing[p]) = IF inp[p].show_circles THEN 2 * n ELSE n
               /\ \A k \in Grid(p) :
                    LET here == k \in DrawnKeys(p)
                        x == DrawnX(p, k[2])
                        y == DrawnY(p, k[1])
                    IN  /\ Cardinality(ElementsAt(p, "text", x, y)) = IF here THEN 1 ELSE 0
                        /\ Cardinality(ElementsAt(p, "circle", x, y))
                             = IF here /\ inp[p].show_circles THEN 1 ELSE 0
               \* blank labels of the input are kept by normalize_labels
               /\ IsFlat(p) => Len(labels_dict[p]) = Len(inp[p].labels.val)
               /\ IsDict(p) => labels_dict[p] = inp[p].labels.val

\* a rendered call with circles, one drawn label and one blank label that
\* is kept in the mapping
C7_Witness ==
    /\ Rendered(1) /\ IsFlat(1) /\ inp[1].show_circles
    /\ inp[1].labels.val = <<LabelBlank, LabelPadded>>
    /\ Len(labels_dict[1]) = 2
    /\ Len(drawing[1]) = 2

\* the scenario of the specification: 3 labels on a 2x2 grid give 3 circles
\* and 3 text blocks
C7_Scenario ==
    /\ Rendered(1) /\ inp[1].show_circles
    /\ NumRows(1) = 2 /\ NumCols(1) = 2
    /\ inp[1].labels = ListOfStr(<<LabelA, LabelB, LabelC>>)
    /\ Cardinality(Elements(1, "circle")) = 3
    /\ Cardinality(Elements(1, "text")) = 3

Accepted(filename) ==
    \/ EndsWith(Lower(filename), DotPdf)
    \/ EndsWith(Lower(filename), DotSvg)
    \/ EndsWith(Lower(filename), DotPng)

FormatOf(filename) ==
    IF EndsWith(Lower(filename), DotPdf) THEN "pdf"
    ELSE IF EndsWith(Lower(filename), DotSvg) THEN "svg"
    ELSE "png"

\* C8: a file name is accepted exactly when its lower-cased form ends in
\* .pdf, .svg or .png, and a PDF, an SVG or a PNG is written; every other
\* file name fails, with UnsupportedFormat naming the text after the last
\* dot when there is a dot and with MissingExtension when there is none.
C8_Extensions ==
    \A p \in Calls :
        LET filename == inp[p].filename
        IN  Dispatched(p)
            => IF Accepted(filename)
               THEN /\ ~FailedWith(p, "UnsupportedFormat")
                    /\ ~FailedWith(p, "MissingExtension")
                    /\ pc[p] = "done" => fs[filename].fmt = FormatOf(filename)
               ELSE IF HasDot(filename)
               THEN /\ FailedWith(p, "UnsupportedFormat")
                    /\ \E i \in 1..Len(filename) :
                         /\ filename[i] = Dot
                         /\ err[p].detail = SubSeq(filename, i + 1, Len(filename))
                         /\ ~HasDot(err[p].detail)
               ELSE FailedWith(p, "MissingExtension")

Taxonomy == {"InvalidInput", "OutOfBounds", "TooManyItems", "InvalidOption",
             "UnsupportedFormat", "MissingExtension", "ExportUnavailable"}

\* C10: when a call fails with an error of the taxonomy, no file step has
\* been taken: the file system is as it was before the call.
C10_FailBeforeFiles ==
    \A p \in Calls :
        (pc[p] = "failed" /\ err[p].kind \in Taxonomy) => fs = OldFiles

\* a .pdf call that ends because cairosvg is missing
C10_Witness ==
    /\ FailedWith(1, "ExportUnavailable")
    /\ inp[1].filename = <<"a">> \o DotPdf
    /\ fs[<<"a">> \o DotPdf] = OldFile

----------------------------------------------------------------------------
(* Properties of concurrent calls (SpecConcurrent) *)

Ended(p) == pc[p] \in {"done", "failed"}

\* the file the call is to leave under its file name
OwnDocument(p) ==
    IF EndsWith(Lower(inp[p].filename), DotPdf)
    THEN PdfOf(SvgFile(drawing[p]))
    ELSE SvgFile(drawing[p])

\* C9: two calls with different file names, interleaved in any way: each
\* call's output file ends up holding that call's own document (no file of
\* one call is overwritten, read or removed by the other).
C9_DistinctFilesIsolated ==
    (/\ Calls = {1, 2}
     /\ inp[1].filename # inp[2].filename
     /\ cairosvg
     /\ \A p \in Calls : Ended(p))
    => \A p \in Calls :
         /\ pc[p] = "done"
         /\ fs[inp[p].filename] = OwnDocument(p)

====
